---- MODULE Spec2Model ----
(***************************************************************************)
(* Cummins-Generator-to-Home-Assistant: a model of the two processes of    *)
(* the pipeline.                                                           *)
(*                                                                         *)
(*   send_to_ha.py      the publish process: validates its arguments,      *)
(*                      reads a JSON document from standard input and      *)
(*                      publishes it to an MQTT broker (paho-mqtt client,  *)
(*                      whose network loop runs in a background thread).   *)
(*   ccc10_headless.py  the extraction process: drives a headless browser  *)
(*                      through sign-in, login and three dashboard         *)
(*                      sections, and prints the payload.                  *)
(*                                                                         *)
(* SpecSend is the publish process (FairSpecSend adds the scheduling of    *)
(* its main thread); SpecScrape is the extraction process and the browser  *)
(* it drives; SpecLocate and SpecTab run the two locator scripts of the    *)
(* extraction process on every small document.                             *)
(***************************************************************************)
EXTENDS Integers, Sequences, FiniteSets, TLC

VARIABLES
    \* ---- send_to_ha.py -------------------------------------------------
    broker,          \* argv: the broker literal
    topic,           \* argv: the topic string
    stdin,           \* what the pipe holds for sys.stdin.read()
    pcSend,          \* position of main()
    sendExc,         \* exception in flight in main(): its class
    sendExit,        \* <<status>> once the process has ended, <<>> before
    stdinRead,       \* sys.stdin.read() has been called
    raw_input,       \* main's local: the stripped input
    payload_str,     \* main's local: the re-serialised document
    client,          \* main's local: None or the mqtt.Client
    sock,            \* the client's socket
    connState,       \* the client's connection state
    loopThread,      \* the background network loop
    connectCalls,    \* number of client.connect calls
    connectArg,      \* the broker string client.connect was called with
    onConnectRcs,    \* the result codes on_connect has been called with
    publishCalls,    \* number of client.publish calls
    published,       \* the documents handed to client.publish
    msgRc,           \* result.rc of the MQTTMessageInfo
    msgAcked,        \* result._published: the broker's PUBACK was handled
    disconnectCalls, \* number of client.disconnect calls
    sendLog,         \* audit log lines written by this process
    \* ---- ccc10_headless.py ---------------------------------------------
    pcScrape,        \* position of main()
    scrapeExc,       \* exception in flight in main(): its class
    scrapeExit,      \* <<status>> once the process has ended, <<>> before
    driver,          \* the browser session: none, open or quit
    quitCalls,       \* number of driver.quit calls
    elements,        \* start_sign_in: the elements matching the sign-in text
    clicked,         \* start_sign_in: index of the element whose ancestor
                     \* was clicked, 0 when none was
    clickedUp,       \* start_sign_in: how many levels above that element
                     \* the click was delivered, 0 when none was
    target,          \* the browser: whether what the next step looks for
                     \* is rendered (pending, present or absent)
    raced,           \* the steps whose lookup ran while a render was pending
    waitClock,       \* click_pulldown: polls slept in the WebDriverWait
    lastWait,        \* click_pulldown: how the last WebDriverWait ended
    phases,          \* the steps of main() that returned normally, in order
    runtime_text,    \* what find_runtime_in_shadow_roots returned
    runtime_value,   \* main's local
    battery_value,   \* main's local
    genset_exercise_text, \* what find_genset_exercise_in_shadow_roots returned
    genset_value,    \* main's local
    payload,         \* main's local: the dictionary generate_ha_payload built
    screenshots,     \* file names driver.save_screenshot has written
    stdout,          \* lines printed to standard output
    \* ---- ccc10_headless.py: the element locators ------------------------
    document,        \* the rendered document a locator script runs on
    pcDom,           \* which locator script has run
    located,         \* what find_deep_placeholder returned
    tabClicked       \* the node click_tab_smart clicked

sendVars == <<broker, topic, stdin, pcSend, sendExc, sendExit, stdinRead,
              raw_input, payload_str, client, sock, connState, loopThread,
              connectCalls, connectArg, onConnectRcs,
              publishCalls, published, msgRc, msgAcked, disconnectCalls,
              sendLog>>

scrapeVars == <<pcScrape, scrapeExc, scrapeExit, driver, quitCalls, elements,
                clicked, clickedUp, target, raced, waitClock, lastWait,
                phases, runtime_text, runtime_value, battery_value,
                genset_exercise_text, genset_value, payload, screenshots,
                stdout>>

domVars == <<document, pcDom, located, tabClicked>>

vars == <<sendVars, scrapeVars, domVars>>

----------------------------------------------------------------------------
(* Bounds of the model *)

\* elements of the sign-in page that hold the sign-in text
MaxElements == 2

----------------------------------------------------------------------------
(* Values *)

None == "None"
\* a local not assigned yet; <<v>> once it holds v
Unset == <<>>
NoExc == "none"

\* One broker argument, as written on the command line: a dotted literal
\* (its decimal parts), a colon literal (its 16-bit groups and whether one
\* "::" abbreviates a run of zero groups) or any other word.
Dotted(parts) == [form |-> "dotted", parts |-> parts, compressed |-> FALSE]
Colon(groups, compressed) ==
    [form |-> "colon", parts |-> groups, compressed |-> compressed]
Word == [form |-> "word", parts |-> <<>>, compressed |-> FALSE]

\* literals that are IPv4/IPv6 addresses
GoodBrokers == { Dotted(<<127, 0, 0, 1>>), Colon(<<1>>, TRUE) }
\* arguments that are not: 999.1.1.1, 192.168.1, 1:2:3, localhost
BadBrokers == { Dotted(<<999, 1, 1, 1>>), Dotted(<<192, 168, 1>>),
                Colon(<<1, 2, 3>>, FALSE), Word }
Brokers == GoodBrokers \cup BadBrokers

Topics == { "home/generator", "home/#", "" }

\* The four fields of a telemetry payload and the JSON type each must have.
Fields == { "runtime_hours", "battery_voltage", "last_exercise_date",
            "last_updated" }
FieldType(f) == IF f \in { "runtime_hours", "battery_voltage" }
                THEN "number" ELSE "string"

\* A JSON document {"generator": {...}}: the fields present, with the JSON
\* type of each value, as a set of <<field, type>> members.
FullDoc == { <<f, FieldType(f)>> : f \in Fields }
Doc(fs, wrong) ==
    { <<f, IF f \in wrong THEN "null" ELSE FieldType(f)>> : f \in fs }
Docs == { FullDoc,
          Doc(Fields \ {"battery_voltage"}, {}),
          Doc(Fields \ {"last_updated"}, {}),
          Doc(Fields, {"runtime_hours"}),
          Doc({}, {}) }

\* Standard input: leading/trailing whitespace around a body that is empty,
\* not JSON, or a JSON document.
NoBody == [kind |-> "empty", doc |-> {}]
Malformed == [kind |-> "malformed", doc |-> {}]
Json(d) == [kind |-> "json", doc |-> d]
Bodies == { NoBody, Malformed } \cup { Json(d) : d \in Docs }
Stdins == [lead : 0..1, body : Bodies, trail : 0..1]

----------------------------------------------------------------------------
(* send_to_ha.py: pure functions *)

\* ipaddress.ip_address on a dotted literal: exactly four decimal parts,
\* each at most 255.
IsIPv4(b) ==
    /\ b.form = "dotted"
    /\ Len(b.parts) = 4
    /\ \A i \in 1..Len(b.parts) : b.parts[i] \in 0..255

\* ipaddress.ip_address on a colon literal: eight groups, or fewer with one
\* "::", each group at most 0xFFFF.
IsIPv6(b) ==
    /\ b.form = "colon"
    /\ IF b.compressed THEN Len(b.parts) <= 7 ELSE Len(b.parts) = 8
    /\ \A i \in 1..Len(b.parts) : b.parts[i] \in 0..65535

\* a validator that accepts any dotted or colon literal unchecked
is_valid_ip_unchecked(ip_string) == ip_string.form \in {"dotted", "colon"}

\* is_valid_ip returns its argument when ip_address accepts it and raises
\* ArgumentTypeError otherwise; TRUE stands for the return.
is_valid_ip(ip_string) == IsIPv4(ip_string) \/ IsIPv6(ip_string)

\* raw_input = sys.stdin.read().strip(): the whitespace around the body goes
strip(s) == s.body

\* "not raw_input": the stripped text is the empty string
IsEmptyText(body) == body.kind = "empty"

\* json.loads raises JSONDecodeError unless the text is a JSON document
JsonLoadsOk(body) == body.kind = "json"

\* json.dumps(json.loads(text)): the same document, re-serialised
JsonDumps(body) == body.doc

\* client.publish raises ValueError for an empty topic or one holding a
\* wildcard
TopicOk(t) == t \notin { "", "home/#" }

\* a wait that gives up and returns although nothing was acknowledged
WaitForPublishReturns_GivesUp == msgRc = "success"

\* result.wait_for_publish() with no timeout: returns once the PUBACK of
\* the message has been handled, and never before
WaitForPublishReturns == msgRc = "success" /\ msgAcked

\* result.wait_for_publish() raises RuntimeError when publish did not queue
\* the message on a connection (rc > 0)
WaitForPublishRaises == msgRc = "no_conn"

\* client.is_connected()
is_connected == connState = "connected"

----------------------------------------------------------------------------
(* send_to_ha.py: main() *)

SendUnchangedNet ==
    UNCHANGED <<sock, connState, loopThread, connectCalls, connectArg,
                onConnectRcs, publishCalls, published, msgRc,
                msgAcked, disconnectCalls>>

SendUnchangedArgs == UNCHANGED <<broker, topic, stdin, scrapeVars, domVars>>

\* args = collect_arguments(): argparse applies is_valid_ip to the broker
\* argument and ends the process with status 2 when it raises.
CollectArguments ==
    /\ pcSend = "args"
    /\ IF is_valid_ip(broker)
       THEN /\ pcSend' = "read_stdin"
            /\ UNCHANGED sendExit
       ELSE /\ pcSend' = "done"
            /\ sendExit' = <<2>>
    /\ SendUnchangedArgs /\ SendUnchangedNet
    /\ UNCHANGED <<sendExc, stdinRead, raw_input, payload_str, client,
                   sendLog>>

\* the empty-input branch with a plain return in place of sys.exit(1)
ReadStdin_Return ==
    /\ pcSend = "read_stdin"
    /\ stdinRead' = TRUE
    /\ raw_input' = <<strip(stdin)>>
    /\ IF IsEmptyText(strip(stdin))
       THEN /\ sendLog' = sendLog \cup {"No data received from pipe."}
            /\ pcSend' = "done"
            /\ sendExit' = <<0>>
       ELSE /\ pcSend' = "parse"
            /\ UNCHANGED <<sendLog, sendExit>>
    /\ SendUnchangedArgs /\ SendUnchangedNet
    /\ UNCHANGED <<sendExc, payload_str, client>>

\* raw_input = sys.stdin.read().strip(); empty input is logged and ends the
\* process with status 1, before the try block and so before any client.
ReadStdin ==
    /\ pcSend = "read_stdin"
    /\ stdinRead' = TRUE
    /\ raw_input' = <<strip(stdin)>>
    /\ IF IsEmptyText(strip(stdin))
       THEN /\ sendLog' = sendLog \cup {"No data received from pipe."}
            /\ pcSend' = "done"
            /\ sendExit' = <<1>>
       ELSE /\ pcSend' = "parse"
            /\ UNCHANGED <<sendLog, sendExit>>
    /\ SendUnchangedArgs /\ SendUnchangedNet
    /\ UNCHANGED <<sendExc, payload_str, client>>

\* payload = json.loads(raw_input); payload_str = json.dumps(payload)
ParseInput ==
    /\ pcSend = "parse"
    /\ IF JsonLoadsOk(raw_input[1])
       THEN /\ payload_str' = <<JsonDumps(raw_input[1])>>
            /\ pcSend' = "create_client"
            /\ UNCHANGED sendExc
       ELSE /\ sendExc' = "JSONDecodeError"
            /\ pcSend' = "except"
            /\ UNCHANGED payload_str
    /\ SendUnchangedArgs /\ SendUnchangedNet
    /\ UNCHANGED <<sendExit, stdinRead, raw_input, client, sendLog>>

\* client = mqtt.Client(...); credentials and callbacks are set
CreateClient ==
    /\ pcSend = "create_client"
    /\ client' = "Client"
    /\ pcSend' = "connect"
    /\ SendUnchangedArgs /\ SendUnchangedNet
    /\ UNCHANGED <<sendExc, sendExit, stdinRead, raw_input, payload_str,
                   sendLog>>

\* client.connect(args.broker, args.port, 60): opens the socket and sends
\* CONNECT, or raises OSError (refused, unreachable, timed out).
Connect ==
    /\ pcSend = "connect"
    /\ connectCalls' = connectCalls + 1
    /\ connectArg' = <<broker>>
    /\ \E ok \in BOOLEAN :
         IF ok
         THEN /\ sock' = "open"
              /\ connState' = "connecting"
              /\ pcSend' = "loop_start"
              /\ UNCHANGED sendExc
         ELSE /\ sendExc' = "Exception"
              /\ pcSend' = "except"
              /\ UNCHANGED <<sock, connState>>
    /\ SendUnchangedArgs
    /\ UNCHANGED <<sendExit, stdinRead, raw_input, payload_str, client,
                   loopThread, onConnectRcs, publishCalls,
                   published, msgRc, msgAcked, disconnectCalls, sendLog>>

\* client.loop_start()
LoopStart ==
    /\ pcSend = "loop_start"
    /\ loopThread' = "running"
    /\ pcSend' = "sleep"
    /\ SendUnchangedArgs
    /\ UNCHANGED <<sendExc, sendExit, stdinRead, raw_input, payload_str,
                   client, sock, connState, connectCalls, connectArg,
                   onConnectRcs, publishCalls, published, msgRc,
                   msgAcked, disconnectCalls, sendLog>>

\* time.sleep(1): returns after a second, whatever on_connect has seen
Sleep ==
    /\ pcSend = "sleep"
    /\ pcSend' = "publish"
    /\ SendUnchangedArgs /\ SendUnchangedNet
    /\ UNCHANGED <<sendExc, sendExit, stdinRead, raw_input, payload_str,
                   client, sendLog>>

\* result = client.publish(args.topic, payload_str, qos=1, retain=True):
\* raises ValueError for a bad topic; otherwise the message is queued, with
\* rc MQTT_ERR_NO_CONN when the client has no socket.
Publish ==
    /\ pcSend = "publish"
    /\ publishCalls' = publishCalls + 1
    /\ IF TopicOk(topic)
       THEN /\ published' = Append(published, payload_str[1])
            /\ msgRc' = IF sock = "open" THEN "success" ELSE "no_conn"
            /\ pcSend' = "wait"
            /\ UNCHANGED sendExc
       ELSE /\ sendExc' = "Exception"
            /\ pcSend' = "except"
            /\ UNCHANGED <<published, msgRc>>
    /\ SendUnchangedArgs
    /\ UNCHANGED <<sendExit, stdinRead, raw_input, payload_str, client, sock,
                   connState, loopThread, connectCalls, connectArg,
                   onConnectRcs, msgAcked, disconnectCalls,
                   sendLog>>

\* result.wait_for_publish(); logging.info("Publish confirmed by broker.")
WaitForPublish ==
    /\ pcSend = "wait"
    /\ \/ /\ WaitForPublishReturns
          /\ sendLog' = sendLog \cup {"Publish confirmed by broker."}
          /\ pcSend' = "finally"
          /\ UNCHANGED sendExc
       \/ /\ WaitForPublishRaises
          /\ sendExc' = "Exception"
          /\ pcSend' = "except"
          /\ UNCHANGED sendLog
    /\ SendUnchangedArgs /\ SendUnchangedNet
    /\ UNCHANGED <<sendExit, stdinRead, raw_input, payload_str, client>>

\* the handler that tries the publish again after a failure of the publish
\* or of its acknowledgment, in place of sys.exit(1)
Except_Retry ==
    /\ pcSend = "except"
    /\ sendExc \in {"JSONDecodeError", "Exception"}
    /\ sendLog' = sendLog \cup
         { IF sendExc = "JSONDecodeError" THEN "Failed to decode JSON"
           ELSE "An error occurred" }
    /\ IF publishCalls = 1
       THEN sendExc' = NoExc /\ pcSend' = "publish"
       ELSE sendExc' = "SystemExit" /\ pcSend' = "finally"
    /\ SendUnchangedArgs /\ SendUnchangedNet
    /\ UNCHANGED <<sendExit, stdinRead, raw_input, payload_str, client>>

\* except json.JSONDecodeError / except Exception: log, sys.exit(1)
Except ==
    /\ pcSend = "except"
    /\ sendExc \in {"JSONDecodeError", "Exception"}
    /\ sendLog' = sendLog \cup
         { IF sendExc = "JSONDecodeError" THEN "Failed to decode JSON"
           ELSE "An error occurred" }
    /\ sendExc' = "SystemExit"
    /\ pcSend' = "finally"
    /\ SendUnchangedArgs /\ SendUnchangedNet
    /\ UNCHANGED <<sendExit, stdinRead, raw_input, payload_str, client>>

\* finally: if client and client.is_connected(): loop_stop, disconnect.
\* Then the process ends: status 1 when SystemExit(1) is in flight, else 0.
Finally ==
    /\ pcSend = "finally"
    /\ IF client # None /\ is_connected
       THEN /\ loopThread' = "stopped"
            /\ disconnectCalls' = disconnectCalls + 1
            /\ connState' = "disconnected"
            /\ sock' = "closed"
            /\ sendLog' = sendLog \cup {"Cleaning up MQTT connection...",
                                        "Done"}
       ELSE UNCHANGED <<loopThread, disconnectCalls, connState, sock,
                        sendLog>>
    /\ sendExit' = IF sendExc = "SystemExit" THEN <<1>> ELSE <<0>>
    /\ pcSend' = "done"
    /\ SendUnchangedArgs
    /\ UNCHANGED <<sendExc, stdinRead, raw_input, payload_str, client,
                   connectCalls, connectArg, onConnectRcs,
                   publishCalls, published, msgRc, msgAcked>>

SendMain ==
    \/ CollectArguments
    \/ ReadStdin
    \/ ParseInput
    \/ CreateClient
    \/ Connect
    \/ LoopStart
    \/ Sleep
    \/ Publish
    \/ WaitForPublish
    \/ Except
    \/ Finally

----------------------------------------------------------------------------
(* send_to_ha.py: the client's network loop (the thread loop_start starts) *)
(* and the broker behind it                                                *)

LoopRuns == loopThread = "running" /\ pcSend # "done"

\* result codes of a CONNACK: 0 accepted, 3 server unavailable, 5 not
\* authorised
ConnackCodes == {0, 3, 5}

LoopUnchangedMain ==
    UNCHANGED <<broker, topic, stdin, pcSend, sendExc, sendExit, stdinRead,
                raw_input, payload_str, client, loopThread, connectCalls,
                connectArg, publishCalls, published, msgRc, disconnectCalls,
                scrapeVars, domVars>>

\* The loop reads the broker's CONNACK and calls on_connect(rc), which only
\* logs. A refused connection is closed by the loop.
OnConnect ==
    /\ LoopRuns
    /\ sock = "open" /\ connState = "connecting"
    /\ \E rc \in ConnackCodes :
         /\ onConnectRcs' = onConnectRcs \cup {rc}
         /\ IF rc = 0
            THEN /\ connState' = "connected"
                 /\ sendLog' = sendLog \cup {"Connected successfully!"}
                 /\ UNCHANGED sock
            ELSE /\ connState' = "lost"
                 /\ sock' = "closed"
                 /\ sendLog' = sendLog \cup {"Connection failed with code"}
    /\ LoopUnchangedMain
    /\ UNCHANGED msgAcked

\* The connection drops (peer reset, keepalive expiry): the loop closes the
\* socket.
ConnectionLost ==
    /\ LoopRuns
    /\ sock = "open"
    /\ sock' = "closed"
    /\ connState' = "lost"
    /\ LoopUnchangedMain
    /\ UNCHANGED <<onConnectRcs, msgAcked, sendLog>>

\* After a lost or refused connection the loop reconnects on its own
\* (reconnect_on_failure): the socket opens again and CONNECT is resent, or
\* the attempt fails and the client stays without a socket.
Reconnect ==
    /\ LoopRuns
    /\ connState = "lost"
    /\ \E ok \in BOOLEAN :
         IF ok
         THEN sock' = "open" /\ connState' = "connecting"
         ELSE UNCHANGED <<sock, connState>>
    /\ LoopUnchangedMain
    /\ UNCHANGED <<onConnectRcs, msgAcked, sendLog>>

\* On an established connection the loop sends the queued message and, when
\* the broker answers PUBACK, marks it published and calls on_publish.
OnPublish ==
    /\ LoopRuns
    /\ connState = "connected"
    /\ msgRc # "none" /\ ~msgAcked
    /\ msgAcked' = TRUE
    /\ sendLog' = sendLog \cup {"Message Published"}
    /\ LoopUnchangedMain
    /\ UNCHANGED <<sock, connState, onConnectRcs>>

SendLoop == OnConnect \/ ConnectionLost \/ Reconnect \/ OnPublish

----------------------------------------------------------------------------
(* ccc10_headless.py: values *)

\* A Python string is modelled by its whitespace-separated words, each word
\* the sequence of its characters; None is the other value a script result
\* can be.
Str(words) == [tag |-> "str", words |-> words]
PyNone == [tag |-> "None", words |-> <<>>]

\* the sentinel the runtime and battery finders return for an absent field
NOT_FOUND == Str(<< <<"N", "O", "T", "_", "F", "O", "U", "N", "D">> >>)
\* CumminsSelectors.LABEL_UNITS
LABEL_UNITS == <<"H", "o", "u", "r", "s">>

\* What find_runtime_in_shadow_roots can return: the innerText of the
\* element holding "Hours" ("27.8 Hours", a bare "Hours", a blank text),
\* None when that element has no innerText (an SVG element), or the
\* sentinel.
RuntimeTexts == { Str(<< <<"2", "7", ".", "8">>, LABEL_UNITS >>),
                  Str(<< LABEL_UNITS >>),
                  Str(<<>>),
                  PyNone,
                  NOT_FOUND }

\* What find_battery_voltage_in_shadow_roots can return: the first
\* \d+\.\d+ match of the label's parent ("13.2") or the sentinel.
BatteryTexts == { Str(<< <<"1", "3", ".", "2">> >>), NOT_FOUND }

\* What find_genset_exercise_in_shadow_roots can return: the trimmed text of
\* the label's next sibling ("Tuesday, March 4th 2025", "February 30th
\* 2025", "soon", "") or null.
ExerciseTexts ==
    { Str(<< <<"T", "u", "e", "s", "d", "a", "y", ",">>, <<"M", "a", "r", "c", "h">>, <<"4", "t", "h">>, <<"2", "0", "2", "5">> >>),
      Str(<< <<"F", "e", "b", "r", "u", "a", "r", "y">>, <<"3", "0", "t", "h">>, <<"2", "0", "2", "5">> >>),
      Str(<< <<"s", "o", "o", "n">> >>),
      Str(<<>>),
      PyNone }

\* the day datetime.now() gives when the text leaves a date field out
Today == [year |-> 2026, month |-> 11, day |-> 2]

----------------------------------------------------------------------------
(* ccc10_headless.py: pure functions *)

Digits == {"0", "1", "2", "3", "4", "5", "6", "7", "8", "9"}

DigitValue(c) ==
    CASE c = "0" -> 0 [] c = "1" -> 1 [] c = "2" -> 2 [] c = "3" -> 3
      [] c = "4" -> 4 [] c = "5" -> 5 [] c = "6" -> 6 [] c = "7" -> 7
      [] c = "8" -> 8 [] c = "9" -> 9

RECURSIVE DigitsToNat(_)
DigitsToNat(ds) ==
    IF ds = <<>> THEN 0
    ELSE 10 * DigitsToNat(SubSeq(ds, 1, Len(ds) - 1)) + DigitValue(ds[Len(ds)])

\* the characters of w at the positions in keep, in order
RECURSIVE Filter(_, _)
Filter(word, keep) ==
    IF word = <<>> THEN <<>>
    ELSE (IF Head(word) \in keep THEN <<Head(word)>> ELSE <<>>)
         \o Filter(Tail(word), keep)

\* runtime_text.split()
split(text) == text.words

Unsigned(word) ==
    IF word # <<>> /\ Head(word) \in {"+", "-"} THEN Tail(word) ELSE word

\* The literals float() accepts, over digits, sign and point: an optional
\* sign, then digits with at most one point and at least one digit.
IsFloatLiteral(word) ==
    LET u == Unsigned(word) IN
    /\ \A i \in 1..Len(u) : u[i] \in Digits \cup {"."}
    /\ Cardinality({ i \in 1..Len(u) : u[i] = "." }) <= 1
    /\ \E i \in 1..Len(u) : u[i] \in Digits

\* a conversion that falls back to zero where float() raises
FloatOk_Lenient(value) == TRUE

\* float(value) returns for a string holding exactly one literal and raises
\* ValueError (TypeError for None) otherwise.
FloatOk(value) ==
    /\ value.tag = "str"
    /\ Len(value.words) = 1
    /\ IsFloatLiteral(value.words[1])

\* float(value) as mantissa and number of decimals: "27.8" is 278, 1.
Float(value) ==
    IF ~(value.tag = "str" /\ Len(value.words) = 1
         /\ IsFloatLiteral(value.words[1]))
    THEN [mant |-> 0, scale |-> 0]
    ELSE LET u == Unsigned(value.words[1])
             dot == { i \in 1..Len(u) : u[i] = "." }
         IN [mant |-> DigitsToNat(Filter(u, Digits)),
             scale |-> IF dot = {} THEN 0
                       ELSE Len(u) - (CHOOSE i \in dot : TRUE)]

\* "genset_exercise_text and ...": None and the empty string are falsy
Truthy(value) == value.tag = "str" /\ value.words # <<>>

\* re.search(r"\d{4}", text): four digits in a row
HasFourDigits(value) ==
    \E k \in 1..Len(value.words) :
      LET word == value.words[k] IN
      \E i \in 1..Len(word) :
         /\ i + 3 <= Len(word)
         /\ \A j \in i..(i + 3) : word[j] \in Digits

MonthNames ==
    << <<"J", "a", "n", "u", "a", "r", "y">>,
       <<"F", "e", "b", "r", "u", "a", "r", "y">>,
       <<"M", "a", "r", "c", "h">>,
       <<"A", "p", "r", "i", "l">>,
       <<"M", "a", "y">>,
       <<"J", "u", "n", "e">>,
       <<"J", "u", "l", "y">>,
       <<"A", "u", "g", "u", "s", "t">>,
       <<"S", "e", "p", "t", "e", "m", "b", "e", "r">>,
       <<"O", "c", "t", "o", "b", "e", "r">>,
       <<"N", "o", "v", "e", "m", "b", "e", "r">>,
       <<"D", "e", "c", "e", "m", "b", "e", "r">> >>

\* the leading digits of a word and what follows them ("4th": "4", "th")
RECURSIVE LeadingDigits(_)
LeadingDigits(word) ==
    IF word = <<>> \/ Head(word) \notin Digits THEN <<>>
    ELSE <<Head(word)>> \o LeadingDigits(Tail(word))

Rest(word) == SubSeq(word, Len(LeadingDigits(word)) + 1, Len(word))

OrdinalSuffixes == { <<>>, <<",">>, <<"s", "t">>, <<"n", "d">>, <<"r", "d">>,
                     <<"t", "h">> }

IsYearToken(word) == Len(LeadingDigits(word)) = 4 /\ Rest(word) \in {<<>>, <<",">>}
IsDayToken(word) ==
    Len(LeadingDigits(word)) \in {1, 2} /\ Rest(word) \in OrdinalSuffixes
IsMonthToken(word) == \E m \in 1..Len(MonthNames) : MonthNames[m] = word

IsLeap(y) == (y % 4 = 0 /\ y % 100 # 0) \/ y % 400 = 0

DaysIn(m, y) ==
    IF m = 2 THEN (IF IsLeap(y) THEN 29 ELSE 28)
    ELSE IF m \in {4, 6, 9, 11} THEN 30 ELSE 31

\* dateutil's parse(text, fuzzy=True) over these words: the first year, month
\* and day tokens are taken, other words are skipped, a field the text
\* leaves out comes from today's date; ok is FALSE where parse raises
\* ParserError (no such date).
ParseDate(value) ==
    LET ws == value.words
        ys == { i \in 1..Len(ws) : IsYearToken(ws[i]) }
        ms == { i \in 1..Len(ws) : IsMonthToken(ws[i]) }
        ds == { i \in 1..Len(ws) : IsDayToken(ws[i]) }
        First(S) == CHOOSE i \in S : \A j \in S : i <= j
        y == IF ys = {} THEN Today.year
             ELSE DigitsToNat(LeadingDigits(ws[First(ys)]))
        m == IF ms = {} THEN Today.month
             ELSE CHOOSE k \in 1..Len(MonthNames) : MonthNames[k] = ws[First(ms)]
        d == IF ds = {} THEN Today.day
             ELSE DigitsToNat(LeadingDigits(ws[First(ds)]))
    IN [ok |-> y >= 1 /\ d >= 1 /\ d <= DaysIn(m, y),
        year |-> y, month |-> m, day |-> d]

\* parse(...).replace(tzinfo=timezone.utc).isoformat()
IsoDate(value) ==
    LET p == ParseDate(value)
    IN [year |-> p.year, month |-> p.month, day |-> p.day, tz |-> "+00:00"]

\* the dictionary generate_ha_payload returns
HaPayload(runtime, voltage, exercise_date) ==
    [generator |->
        [runtime_hours |-> Float(runtime),
         battery_voltage |-> Float(voltage),
         last_exercise_date |-> IsoDate(exercise_date),
         last_updated |-> "now"]]

\* json.dumps(payload, separators=(",", ":")): one line holding the object
DumpsLine(p) == [kind |-> "json", doc |-> p]

----------------------------------------------------------------------------
(* ccc10_headless.py: main() and the steps it calls *)

\* One match of the sign-in XPath: whether it is displayed, and how many
\* levels above it its nearest interactive ancestor (the button) is.
Candidates == [displayed : BOOLEAN, interactiveAt : {1, 2}]

\* the matches of the sign-in XPath, in document order
ElementLists ==
    UNION { [1..n -> Candidates] : n \in 0..MaxElements }

\* WebDriverWait(driver, 15) polls every half second (selenium's default
\* poll_frequency): the clock of a wait counts polls
PULLDOWN_TIMEOUT == 15
POLLS_PER_SECOND == 2
WaitTicks == PULLDOWN_TIMEOUT * POLLS_PER_SECOND

\* no wait has ended yet, or one is in progress
NoWait == [outcome |-> "none", polls |-> 0, readyTick |-> 0, clickTick |-> 0]

session == <<driver, quitCalls, scrapeExit>>
signin == <<elements, clicked, clickedUp>>
fields == <<runtime_text, runtime_value, battery_value, genset_exercise_text,
            genset_value, payload>>
waiting == <<waitClock, lastWait>>
page == <<target, raced>>

\* a step returns normally: main goes on with the next one
Return(next, phase) ==
    /\ pcScrape' = next
    /\ phases' = Append(phases, phase)
    /\ UNCHANGED <<scrapeExc, screenshots>>

\* driver.save_screenshot(file); sys.exit(1): SystemExit is no Exception, so
\* it passes main's except clause and reaches the finally block
Fatal(file) ==
    /\ screenshots' = screenshots \cup {file}
    /\ scrapeExc' = "SystemExit"
    /\ pcScrape' = "finally"
    /\ UNCHANGED phases

\* sys.exit(1) with no screenshot taken
Exit1 ==
    /\ scrapeExc' = "SystemExit"
    /\ pcScrape' = "finally"
    /\ UNCHANGED <<phases, screenshots>>

\* an exception no step catches: it reaches main's except Exception
Raise ==
    /\ scrapeExc' = "Exception"
    /\ pcScrape' = "except"
    /\ UNCHANGED <<phases, screenshots>>

\* A one-shot lookup (execute_script, no wait) made by step: it finds its
\* target only when the page has rendered it; made while the render that
\* the previous click started is still pending, it has raced the render.
Lookup(step) ==
    raced' = IF target = "pending" THEN raced \cup {step} ELSE raced

\* The browser renders on its own, after the script's click has returned:
\* the pending content appears, or the page settles without it.
Render ==
    /\ driver = "open" /\ pcScrape # "done"
    /\ target = "pending"
    /\ \E t \in {"present", "absent"} : target' = t
    /\ UNCHANGED <<pcScrape, scrapeExc, session, signin, phases, fields,
                   waiting, raced, screenshots, stdout, sendVars, domVars>>

\* driver = create_driver(), before the try block: a browser that cannot
\* start ends the process with a traceback
CreateDriver ==
    /\ pcScrape = "create_driver"
    /\ \E ok \in BOOLEAN :
         IF ok
         THEN /\ driver' = "open"
              /\ pcScrape' = "start_sign_in"
              /\ UNCHANGED scrapeExit
         ELSE /\ pcScrape' = "done"
              /\ scrapeExit' = <<1>>
              /\ UNCHANGED driver
    /\ UNCHANGED <<scrapeExc, quitCalls, signin, phases, fields, waiting,
                   page, screenshots, stdout, sendVars, domVars>>

\* start_sign_in: load the page, list the elements holding the sign-in
\* text, click the parent of elements[0] when there is any; with no match
\* the function returns without a click. A requests error is a fatal error
\* of this step; any other exception is not caught here. The click starts
\* the render of the login form.
StartSignIn ==
    /\ pcScrape = "start_sign_in"
    /\ \E outcome \in {"ok", "http_error", "request_error", "raises"} :
         CASE outcome = "ok" ->
                \E es \in ElementLists, clickOk \in BOOLEAN :
                  /\ elements' = es
                  /\ IF es = <<>>
                     THEN /\ clicked' = 0 /\ clickedUp' = 0
                          /\ pcScrape' = "do_login"
                          /\ \E t \in {"present", "absent"} : target' = t
                          /\ UNCHANGED <<scrapeExc, phases, screenshots>>
                     ELSE IF clickOk
                     THEN /\ clicked' = 1 /\ clickedUp' = 1
                          /\ target' = "pending"
                          /\ Return("do_login", "SignInTriggered")
                     ELSE /\ clicked' = 0 /\ clickedUp' = 0
                          /\ Raise /\ UNCHANGED target
           [] outcome \in {"http_error", "request_error"} ->
                Fatal("sign_in_debug_render.png") /\ UNCHANGED <<signin, target>>
           [] outcome = "raises" ->
                Raise /\ UNCHANGED <<signin, target>>
    /\ UNCHANGED <<session, fields, waiting, raced, stdout, sendVars, domVars>>

\* do_login: the username field, the password field and the submit button
\* are each looked up once with find_deep_placeholder; a missing one is
\* fatal. send_keys and click can raise. The submit click starts the render
\* of the dashboard.
DoLogin ==
    /\ pcScrape = "do_login"
    /\ Lookup("do_login")
    /\ IF target = "present"
       THEN \E outcome \in {"ok", "raises"} :
              IF outcome = "ok"
              THEN Return("click_maintenance", "Authenticated")
                   /\ target' = "pending"
              ELSE Raise /\ UNCHANGED target
       ELSE \E missing \in {"no_username", "no_password", "no_button"} :
              Fatal("login_debug_render.png") /\ UNCHANGED target
    /\ UNCHANGED <<session, signin, fields, waiting, stdout, sendVars, domVars>>

\* the wait that sleeps the whole timeout and looks once, in place of the
\* poll loop: the click comes at the end of the timeout
ClickPulldown_SleepThenLook(next, phase) ==
    IF target = "present"
    THEN /\ Return(next, phase)
         /\ lastWait' = [outcome |-> "clicked", polls |-> 1,
                         readyTick |-> waitClock, clickTick |-> WaitTicks]
         /\ waitClock' = 0
         /\ target' = "pending"
    ELSE /\ Fatal("click_pulldown_debug_render.png")
         /\ lastWait' = [outcome |-> "NotReady", polls |-> 1,
                         readyTick |-> 0, clickTick |-> 0]
         /\ waitClock' = 0
         /\ UNCHANGED target

\* click_pulldown, one poll of WebDriverWait(driver, 15).until(
\* element_to_be_clickable): a poll that finds the <p> clickable returns it
\* and it is clicked at once; a poll that does not sleeps one poll interval
\* and polls again, until a poll made after the timeout has passed raises
\* TimeoutException. The timeout and a failed click are fatal inside
\* click_pulldown, so the caller's "if not success" branch is never taken.
\* The click starts the render of the section's content.
ClickPulldown(next, phase) ==
    IF target = "present"
    THEN \E clickOk \in BOOLEAN :
           /\ IF clickOk
              THEN Return(next, phase) /\ target' = "pending"
              ELSE Fatal("click_pulldown_debug_render.png") /\ UNCHANGED target
           /\ lastWait' = [outcome |-> IF clickOk THEN "clicked"
                                       ELSE "click_failed",
                           polls |-> waitClock + 1,
                           readyTick |-> waitClock, clickTick |-> waitClock]
           /\ waitClock' = 0
    ELSE IF waitClock > WaitTicks
    THEN /\ Fatal("click_pulldown_debug_render.png")
         /\ lastWait' = [outcome |-> "NotReady", polls |-> waitClock + 1,
                         readyTick |-> 0, clickTick |-> 0]
         /\ waitClock' = 0
         /\ UNCHANGED target
    ELSE /\ waitClock' = waitClock + 1
         /\ lastWait' = NoWait
         /\ UNCHANGED <<pcScrape, scrapeExc, phases, screenshots, target>>

\* scrape_runtime, first half: click_pulldown(driver, TAB_MAINTENANCE)
ClickMaintenance ==
    /\ pcScrape = "click_maintenance"
    /\ ClickPulldown("find_runtime", "TabMaintenanceOpen")
    /\ UNCHANGED <<session, signin, fields, raced, stdout, sendVars, domVars>>

\* scrape_runtime, second half: the finder is called once, with no wait;
\* runtime_text.split()[0]; a blank text has no first word (IndexError)
\* and None has no split (AttributeError).
\* The next pulldown is part of the dashboard: rendered already, still to
\* come, or not there.
FindRuntime ==
    /\ pcScrape = "find_runtime"
    /\ Lookup("find_runtime")
    /\ \E text \in IF target = "present" THEN RuntimeTexts \ {NOT_FOUND}
                   ELSE {NOT_FOUND} :
         /\ runtime_text' = <<text>>
         /\ IF split(text) = <<>>
            THEN Raise /\ UNCHANGED runtime_value
            ELSE /\ runtime_value' = << Str(<< split(text)[1] >>) >>
                 /\ Return("click_generator_data", "RuntimeExtracted")
    /\ \E t \in {"pending", "present", "absent"} : target' = t
    /\ UNCHANGED <<session, signin, battery_value, genset_exercise_text,
                   genset_value, payload, waiting, stdout, sendVars, domVars>>

\* scrape_battery, first half: click_pulldown(driver, PULL_GENERATOR_DATA)
ClickGeneratorData ==
    /\ pcScrape = "click_generator_data"
    /\ ClickPulldown("find_battery", "TabGeneratorOpen")
    /\ UNCHANGED <<session, signin, fields, raced, stdout, sendVars, domVars>>

\* the finder whose script ends without || "NOT_FOUND": a label that is
\* not found comes back as null
FindBattery_Null ==
    /\ pcScrape = "find_battery"
    /\ Lookup("find_battery")
    /\ \E text \in IF target = "present" THEN BatteryTexts \ {NOT_FOUND}
                   ELSE {PyNone} :
         /\ battery_value' = <<text>>
         /\ Return("click_notifications", "BatteryExtracted")
    /\ \E t \in {"pending", "present", "absent"} : target' = t
    /\ UNCHANGED <<session, signin, runtime_text, runtime_value,
                   genset_exercise_text, genset_value, payload, waiting,
                   stdout, sendVars, domVars>>

\* scrape_battery, second half: the finder is called once, with no wait;
\* its result (the number found, or the sentinel: the script ends with
\* || "NOT_FOUND") is returned as it is
FindBattery ==
    /\ pcScrape = "find_battery"
    /\ Lookup("find_battery")
    /\ \E text \in IF target = "present" THEN BatteryTexts \ {NOT_FOUND}
                   ELSE {NOT_FOUND} :
         /\ battery_value' = <<text>>
         /\ Return("click_notifications", "BatteryExtracted")
    /\ \E t \in {"pending", "present", "absent"} : target' = t
    /\ UNCHANGED <<session, signin, runtime_text, runtime_value,
                   genset_exercise_text, genset_value, payload, waiting,
                   stdout, sendVars, domVars>>

\* scrape_genset_exercise: click_pulldown(driver, PULL_NOTIFICATIONS)
ClickNotifications ==
    /\ pcScrape = "click_notifications"
    /\ ClickPulldown("click_events_tab", "TabNotificationsOpen")
    /\ UNCHANGED <<session, signin, fields, raced, stdout, sendVars, domVars>>

\* scrape_genset_exercise: click_tab_smart(driver, TAB_EVENTS), called once
\* with no wait; its click starts the render of the events list
ClickEventsTab ==
    /\ pcScrape = "click_events_tab"
    /\ Lookup("click_events_tab")
    /\ IF target = "present"
       THEN Return("find_exercise", "EventsTabOpen") /\ target' = "pending"
       ELSE Fatal("genset_debug_render.png") /\ UNCHANGED target
    /\ UNCHANGED <<session, signin, fields, waiting, stdout, sendVars, domVars>>

\* scrape_genset_exercise: the finder is called once, with no wait; the
\* text must be there and hold four digits
FindExercise ==
    /\ pcScrape = "find_exercise"
    /\ Lookup("find_exercise")
    /\ \E text \in IF target = "present" THEN ExerciseTexts \ {PyNone}
                   ELSE {PyNone} :
         /\ genset_exercise_text' = <<text>>
         /\ IF Truthy(text) /\ HasFourDigits(text)
            THEN /\ genset_value' = <<text>>
                 /\ Return("none_check", "ExerciseExtracted")
            ELSE /\ Fatal("genset_debug_render.png")
                 /\ UNCHANGED genset_value
    /\ UNCHANGED <<session, signin, runtime_text, runtime_value,
                   battery_value, payload, waiting, target, stdout, sendVars,
                   domVars>>

\* if any(v is None for v in [runtime_value, battery_value, genset_value])
NoneCheck ==
    /\ pcScrape = "none_check"
    /\ IF \E v \in {runtime_value[1], battery_value[1], genset_value[1]} :
            v = PyNone
       THEN Exit1
       ELSE /\ pcScrape' = "generate_ha_payload"
            /\ UNCHANGED <<scrapeExc, phases, screenshots>>
    /\ UNCHANGED <<session, signin, fields, waiting, page, stdout, sendVars,
                   domVars>>

\* the handler with no sys.exit(1): the error is logged and main goes on
MainExcept_Swallow ==
    /\ pcScrape = "except"
    /\ scrapeExc' = NoExc
    /\ pcScrape' = "finally"
    /\ UNCHANGED <<session, signin, phases, fields, waiting, page,
                   screenshots, stdout, sendVars, domVars>>

\* generate_ha_payload: a date that does not parse is fatal (sys.exit(1));
\* float() of the runtime or the voltage may raise ValueError, which
\* nothing here catches.
GenerateHaPayload ==
    /\ pcScrape = "generate_ha_payload"
    /\ IF ~ParseDate(genset_value[1]).ok
       THEN Exit1 /\ UNCHANGED payload
       ELSE IF ~FloatOk(runtime_value[1]) \/ ~FloatOk(battery_value[1])
       THEN Raise /\ UNCHANGED payload
       ELSE /\ payload' = << HaPayload(runtime_value[1], battery_value[1],
                                       genset_value[1]) >>
            /\ Return("print", "PayloadBuilt")
    /\ UNCHANGED <<session, signin, runtime_text, runtime_value,
                   battery_value, genset_exercise_text, genset_value,
                   waiting, page, stdout, sendVars, domVars>>

\* json_payload = json.dumps(payload, ...); print(json_payload)
PrintPayload ==
    /\ pcScrape = "print"
    /\ stdout' = Append(stdout, DumpsLine(payload[1]))
    /\ pcScrape' = "finally"
    /\ UNCHANGED <<scrapeExc, session, signin, phases, fields, waiting, page,
                   screenshots, sendVars, domVars>>

\* except Exception as e: logging.exception(...); sys.exit(1)
MainExcept ==
    /\ pcScrape = "except"
    /\ scrapeExc' = "SystemExit"
    /\ pcScrape' = "finally"
    /\ UNCHANGED <<session, signin, phases, fields, waiting, page,
                   screenshots, stdout, sendVars, domVars>>

\* driver.quit() as the last statement of the try block in place of the
\* finally block: a failing run ends with the browser left open
MainFinally_QuitOnSuccess ==
    /\ pcScrape = "finally"
    /\ IF scrapeExc = NoExc
       THEN driver' = "quit" /\ quitCalls' = quitCalls + 1
       ELSE UNCHANGED <<driver, quitCalls>>
    /\ scrapeExit' = IF scrapeExc = "SystemExit" THEN <<1>> ELSE <<0>>
    /\ pcScrape' = "done"
    /\ UNCHANGED <<scrapeExc, signin, phases, fields, waiting, page,
                   screenshots, stdout, sendVars, domVars>>

\* finally: driver.quit(). Then the process ends: status 1 when
\* SystemExit(1) is in flight, else 0.
MainFinally ==
    /\ pcScrape = "finally"
    /\ driver' = "quit"
    /\ quitCalls' = quitCalls + 1
    /\ scrapeExit' = IF scrapeExc = "SystemExit" THEN <<1>> ELSE <<0>>
    /\ pcScrape' = "done"
    /\ UNCHANGED <<scrapeExc, signin, phases, fields, waiting, page,
                   screenshots, stdout, sendVars, domVars>>

\* main(), step by step
ScrapeMain ==
    \/ CreateDriver
    \/ StartSignIn
    \/ DoLogin
    \/ ClickMaintenance
    \/ FindRuntime
    \/ ClickGeneratorData
    \/ FindBattery
    \/ ClickNotifications
    \/ ClickEventsTab
    \/ FindExercise
    \/ NoneCheck
    \/ GenerateHaPayload
    \/ PrintPayload
    \/ MainExcept
    \/ MainFinally

\* the script and the browser it drives
ScrapeNext == ScrapeMain \/ Render

----------------------------------------------------------------------------
(* ccc10_headless.py: the rendered document and the locator scripts *)

\* nodes of a document find_deep_placeholder is run on
MaxNodes == 4
\* nodes of a document click_tab_smart is run on
MaxTabNodes == 3

\* An element: its tag name, its name attribute, the text of its own text
\* nodes (a sequence of characters), its element children in document
\* order, and its shadow root: <<>> when it has none, else <<scope>>. A
\* scope (a document, a shadow root, an element's children) is the sequence
\* of its top-level elements.
Element(label, kids, shadow) ==
    [tag |-> label.tag, name |-> label.name, text |-> label.text,
     kids |-> kids, shadow |-> shadow]

\* the scopes of n elements in all, each labelled from Labels
RECURSIVE ScopesOfSize(_, _)
RECURSIVE NodesOfSize(_, _)
ShadowsOfSize(n, Labels) ==
    IF n = 0 THEN { <<>> } ELSE { <<s>> : s \in ScopesOfSize(n, Labels) }

NodesOfSize(n, Labels) ==
    UNION { { Element(l, ks, sh) :
                l \in Labels, ks \in ScopesOfSize(a, Labels),
                sh \in ShadowsOfSize(n - 1 - a, Labels) } : a \in 0..(n - 1) }

ScopesOfSize(n, Labels) ==
    IF n = 0 THEN { <<>> }
    ELSE UNION { { <<t>> \o f : t \in NodesOfSize(k, Labels),
                                f \in ScopesOfSize(n - k, Labels) } :
                 k \in 1..n }

Documents(max, Labels) == UNION { ScopesOfSize(n, Labels) : n \in 1..max }

\* CumminsSelectors.USER_INPUT: input[name="username"]
USER_INPUT == [tag |-> "INPUT", name |-> "username"]
\* CumminsSelectors.TAB_EVENTS
TAB_EVENTS == <<"E", "v", "e", "n", "t", "s">>

NoText == <<>>
\* the label of the tab as the dashboard shows it
EventsText == <<"e", "v", "e", "n", "t", "s", " ", "(", "1", "6", ")">>

\* login pages: a wrapper, the username field, the password field
LocateLabels ==
    { [tag |-> "DIV", name |-> "", text |-> NoText],
      [tag |-> "INPUT", name |-> "username", text |-> NoText],
      [tag |-> "INPUT", name |-> "password", text |-> NoText] }

\* dashboards: wrappers, buttons and links, with or without the tab's text
TabLabels ==
    { [tag |-> t, name |-> "", text |-> x] :
        t \in {"DIV", "BUTTON", "A"}, x \in {NoText, EventsText} }

\* the value a script returns for no element (null, false)
Null == <<>>

\* A node is named by its path from the document: the index of each
\* element on the way, with a 0 where the way enters a shadow root.
RECURSIVE NodeAt(_, _)
NodeAt(root, path) ==
    LET n == root[Head(path)]
        rest == Tail(path)
    IN IF rest = <<>> THEN n
       ELSE IF Head(rest) = 0 THEN NodeAt(n.shadow[1], Tail(rest))
       ELSE NodeAt(n.kids, rest)

\* element.matches(selector)
Matches(node, selector) ==
    node.tag = selector.tag /\ node.name = selector.name

\* root.querySelectorAll('*'): the elements below root in document order,
\* not entering any shadow root; root sits at path at
RECURSIVE Descend(_, _, _)
Descend(root, at, i) ==
    IF i > Len(root) THEN <<>>
    ELSE << [path |-> Append(at, i), node |-> root[i]] >>
         \o Descend(root[i].kids, Append(at, i), 1)
         \o Descend(root, at, i + 1)

querySelectorAll(root, at) == Descend(root, at, 1)

\* root.querySelector(selector): the first match in document order
querySelector(root, at, selector) ==
    LET all == querySelectorAll(root, at)
        hits == { i \in 1..Len(all) : Matches(all[i].node, selector) }
    IN IF hits = {} THEN Null
       ELSE all[CHOOSE i \in hits : \A j \in hits : i <= j].path

\* the search that looks into the shadow roots of root's elements and no
\* deeper
findInShadows_OneLevel(root, at, selector) ==
    LET el == querySelector(root, at, selector)
        hosts == querySelectorAll(root, at)
        found == { i \in 1..Len(hosts) :
                     /\ hosts[i].node.shadow # <<>>
                     /\ querySelector(hosts[i].node.shadow[1],
                                      Append(hosts[i].path, 0), selector)
                          # Null }
    IN IF el # Null THEN el
       ELSE IF found = {} THEN Null
       ELSE LET h == hosts[CHOOSE i \in found : \A j \in found : i <= j]
            IN querySelector(h.node.shadow[1], Append(h.path, 0), selector)

\* the search in one combined pre-order: each element, then its shadow
\* root, then its children
RECURSIVE PreOrderFind(_, _, _, _)
PreOrderFind(root, at, i, selector) ==
    IF i > Len(root) THEN Null
    ELSE LET p == Append(at, i)
             n == root[i]
             inShadow == IF n.shadow = <<>> THEN Null
                         ELSE PreOrderFind(n.shadow[1], Append(p, 0), 1,
                                           selector)
             inKids == PreOrderFind(n.kids, p, 1, selector)
         IN IF Matches(n, selector) THEN p
            ELSE IF inShadow # Null THEN inShadow
            ELSE IF inKids # Null THEN inKids
            ELSE PreOrderFind(root, at, i + 1, selector)

findInShadows_PreOrder(root, at, selector) ==
    PreOrderFind(root, at, 1, selector)

\* find_deep_placeholder's script: findInShadows(root, selector) returns
\* root.querySelector(selector) when there is one, else the first result of
\* findInShadows on the shadow root of each element of
\* root.querySelectorAll('*'), else null
RECURSIVE findInShadows(_, _, _)
RECURSIVE findInHosts(_, _, _)
findInShadows(root, at, selector) ==
    LET el == querySelector(root, at, selector)
    IN IF el # Null THEN el
       ELSE findInHosts(querySelectorAll(root, at), 1, selector)

\* the for loop over hosts, from the i-th on
findInHosts(hosts, i, selector) ==
    IF i > Len(hosts) THEN Null
    ELSE LET host == hosts[i]
             found == IF host.node.shadow = <<>> THEN Null
                      ELSE findInShadows(host.node.shadow[1],
                                         Append(host.path, 0), selector)
         IN IF found # Null THEN found
            ELSE findInHosts(hosts, i + 1, selector)

\* find_deep_placeholder(driver, selector): findInShadows(document, selector)
find_deep_placeholder(doc, selector) == findInShadows(doc, <<>>, selector)

\* String.prototype.toLowerCase, a character at a time
LowerChar(c) ==
    CASE c = "E" -> "e" [] c = "V" -> "v" [] c = "N" -> "n"
      [] c = "T" -> "t" [] c = "S" -> "s" [] OTHER -> c

toLowerCase(str) == [i \in 1..Len(str) |-> LowerChar(str[i])]

\* String.prototype.trim
RECURSIVE trimStart(_)
trimStart(str) ==
    IF str # <<>> /\ Head(str) = " " THEN trimStart(Tail(str)) ELSE str

RECURSIVE trimEnd(_)
trimEnd(str) ==
    IF str # <<>> /\ str[Len(str)] = " "
    THEN trimEnd(SubSeq(str, 1, Len(str) - 1)) ELSE str

trim(str) == trimEnd(trimStart(str))

\* String.prototype.includes
includes(str, part) ==
    \E i \in 1..(Len(str) - Len(part) + 1) :
        SubSeq(str, i, i + Len(part) - 1) = part

\* node.textContent: the text of the node and of all its descendants, not
\* of its shadow root
RECURSIVE textContent(_)
RECURSIVE textOfAll(_, _)
textContent(node) == node.text \o textOfAll(node.kids, 1)

textOfAll(nodes, i) ==
    IF i > Len(nodes) THEN <<>>
    ELSE textContent(nodes[i]) \o textOfAll(nodes, i + 1)

\* node.textContent.trim().toLowerCase().includes(target.toLowerCase())
TextMatches(node, tab_name) ==
    includes(toLowerCase(trim(textContent(node))), toLowerCase(tab_name))

\* the test with the leaf condition left out: any node whose text matches
LeafLike_Any(node) == TRUE

\* node.children.length === 0 || node.tagName === 'BUTTON'
\*                            || node.tagName === 'A'
LeafLike(node) ==
    node.kids = <<>> \/ node.tag = "BUTTON" \/ node.tag = "A"

\* click_tab_smart's script: findAndClickTab(root, target) goes through
\* root.querySelectorAll('*'); a node whose text matches and that is a leaf
\* or a button or a link is clicked and ends the search; otherwise, when
\* the node has a shadow root, the search goes into it. The result here is
\* the clicked node, null when the script returns false.
RECURSIVE findAndClickTab(_, _, _)
RECURSIVE ClickLoop(_, _, _)
findAndClickTab(root, at, tab_name) ==
    ClickLoop(querySelectorAll(root, at), 1, tab_name)

\* the for loop over allNodes, from the i-th on
ClickLoop(allNodes, i, tab_name) ==
    IF i > Len(allNodes) THEN Null
    ELSE LET e == allNodes[i]
             found == IF e.node.shadow = <<>> THEN Null
                      ELSE findAndClickTab(e.node.shadow[1],
                                           Append(e.path, 0), tab_name)
         IN IF TextMatches(e.node, tab_name) /\ LeafLike(e.node) THEN e.path
            ELSE IF found # Null THEN found
            ELSE ClickLoop(allNodes, i + 1, tab_name)

\* click_tab_smart(driver, tab_name): findAndClickTab(document.body, tab_name)
click_tab_smart(doc, tab_name) == findAndClickTab(doc, <<>>, tab_name)

\* do_login's first lookup, on the page the browser holds
FindDeepPlaceholder ==
    /\ pcDom = "idle"
    /\ located' = << find_deep_placeholder(document, USER_INPUT) >>
    /\ pcDom' = "located"
    /\ UNCHANGED <<document, tabClicked, sendVars, scrapeVars>>

\* scrape_genset_exercise's tab click, on the page the browser holds
ClickTabSmart ==
    /\ pcDom = "idle"
    /\ tabClicked' = << click_tab_smart(document, TAB_EVENTS) >>
    /\ pcDom' = "tabbed"
    /\ UNCHANGED <<document, located, sendVars, scrapeVars>>

----------------------------------------------------------------------------
(* Specifications *)

\* the publish process started on broker b, topic t, with s on its pipe
SendStart(b, t, s) ==
    /\ broker = b
    /\ topic = t
    /\ stdin = s
    /\ pcSend = "args"
    /\ sendExc = NoExc
    /\ sendExit = <<>>
    /\ stdinRead = FALSE
    /\ raw_input = Unset
    /\ payload_str = Unset
    /\ client = None
    /\ sock = "closed"
    /\ connState = "new"
    /\ loopThread = "none"
    /\ connectCalls = 0
    /\ connectArg = Unset
    /\ onConnectRcs = {}
    /\ publishCalls = 0
    /\ published = <<>>
    /\ msgRc = "none"
    /\ msgAcked = FALSE
    /\ disconnectCalls = 0
    /\ sendLog = {}

\* the extraction process at its start
ScrapeInit ==
    /\ pcScrape = "create_driver"
    /\ scrapeExc = NoExc
    /\ scrapeExit = <<>>
    /\ driver = "none"
    /\ quitCalls = 0
    /\ elements = <<>>
    /\ clicked = 0
    /\ clickedUp = 0
    /\ target = "absent"
    /\ raced = {}
    /\ waitClock = 0
    /\ lastWait = NoWait
    /\ phases = <<>>
    /\ runtime_text = Unset
    /\ runtime_value = Unset
    /\ battery_value = Unset
    /\ genset_exercise_text = Unset
    /\ genset_value = Unset
    /\ payload = Unset
    /\ screenshots = {}
    /\ stdout = <<>>

\* no locator script has run
DomIdle ==
    /\ document = <<>>
    /\ pcDom = "idle"
    /\ located = Unset
    /\ tabClicked = Unset

SendInit ==
    /\ \E b \in Brokers, t \in Topics, s \in Stdins : SendStart(b, t, s)
    /\ ScrapeInit
    /\ DomIdle

SendNext == SendMain \/ SendLoop

\* The publish process, every interleaving of main() and the network loop,
\* for every broker argument, topic and standard input.
SpecSend == SendInit /\ [][SendNext]_vars

\* The extraction process alone (the publish process not started), for
\* every outcome of every step.
ScrapeAloneInit ==
    /\ ScrapeInit
    /\ SendStart(Dotted(<<127, 0, 0, 1>>), "home/generator",
                 [lead |-> 0, body |-> NoBody, trail |-> 0])
    /\ DomIdle

SpecScrape == ScrapeAloneInit /\ [][ScrapeNext]_vars

\* the other two processes, not started
Idle ==
    /\ ScrapeInit
    /\ SendStart(Dotted(<<127, 0, 0, 1>>), "home/generator",
                 [lead |-> 0, body |-> NoBody, trail |-> 0])

\* a locator script about to run on the document doc
DomStart(doc) ==
    /\ document = doc
    /\ pcDom = "idle"
    /\ located = Unset
    /\ tabClicked = Unset

LocateInit ==
    /\ \E doc \in Documents(MaxNodes, LocateLabels) : DomStart(doc)
    /\ Idle

\* find_deep_placeholder on every login page of up to MaxNodes elements
SpecLocate == LocateInit /\ [][FindDeepPlaceholder]_vars

TabInit ==
    /\ \E doc \in Documents(MaxTabNodes, TabLabels) : DomStart(doc)
    /\ Idle

\* click_tab_smart on every dashboard of up to MaxTabNodes elements
SpecTab == TabInit /\ [][ClickTabSmart]_vars

\* The same with the main thread scheduled whenever it can take a step. The
\* broker and the network owe nothing: no fairness on the loop's actions.
FairSpecSend == SpecSend /\ WF_vars(SendMain)

----------------------------------------------------------------------------
(* Claims about the publish process (send_to_ha.py) *)

\* C1: once main has called publish and waits for the acknowledgment, the
\* wait ends and the process terminates, also when the broker never
\* acknowledges: main never blocks forever. (FairSpecSend)
C1_WaitForAckTerminates == (pcSend = "wait") ~> (pcSend = "done")

\* C2: the process logs 'Publish confirmed by broker.' and exits with
\* status 0 only when the broker's acknowledgment of the message has been
\* observed.
C2_SuccessOnlyWhenAcked ==
    /\ sendExit = <<0>> => msgAcked
    /\ "Publish confirmed by broker." \in sendLog => msgAcked

C2_Witness ==
    /\ pcSend = "done" /\ sendExit = <<0>>
    /\ "Publish confirmed by broker." \in sendLog
    /\ msgAcked

\* client.connect raised: main left the try block before loop_start
ConnectRaised ==
    connectCalls > 0 /\ loopThread = "none" /\ pcSend \notin {"connect", "loop_start"}

\* on_connect was called with a non-zero result code
ConnectRefused == \E rc \in onConnectRcs : rc # 0

\* C3: whenever the connection attempt fails (client.connect raises, or
\* on_connect arrives with a non-zero result code), the process exits with
\* status 1 and never with status 0.
C3_ConnectFailureExitsOne ==
    ((ConnectRaised \/ ConnectRefused) /\ pcSend = "done") => sendExit = <<1>>

\* a JSON document holding all four telemetry fields, each of its type
IsTelemetryPayload(body) ==
    /\ body.kind = "json"
    /\ { m[1] : m \in body.doc } = Fields
    /\ \A m \in body.doc : m[2] = FieldType(m[1])

\* C4: client.publish is called only for a document that holds all four
\* fields runtime_hours, battery_voltage, last_exercise_date and the
\* generation timestamp, each well-typed; partial payloads are never
\* published.
C4_OnlyCompletePayloadsPublished ==
    publishCalls > 0 => IsTelemetryPayload(strip(stdin))

\* C8: empty or whitespace-only standard input ends the process with
\* status 1 before any broker client is created or any connection attempted.
C8_EmptyInputExitsBeforeClient ==
    /\ IsEmptyText(strip(stdin)) => (client = None /\ connectCalls = 0)
    /\ (stdinRead /\ IsEmptyText(strip(stdin)))
          => (pcSend = "done" /\ sendExit = <<1>>)

C8_Witness ==
    /\ stdinRead /\ stdin.lead = 1 /\ IsEmptyText(strip(stdin))
    /\ pcSend = "done" /\ sendExit = <<1>> /\ client = None

\* C9: a broker argument that is not an IPv4/IPv6 literal ends the process
\* with a failure status during argument validation, before standard input
\* is read and before any connection attempt; client.connect is only ever
\* called with a valid literal.
C9_BadBrokerRejectedFirst ==
    /\ broker \in BadBrokers =>
          /\ ~stdinRead /\ client = None /\ connectCalls = 0
          /\ pcSend # "args" => (pcSend = "done" /\ sendExit = <<2>>)
    /\ connectCalls > 0 => connectArg[1] \in GoodBrokers

C9_Witness ==
    /\ broker = Dotted(<<999, 1, 1, 1>>)
    /\ pcSend = "done" /\ sendExit = <<2>> /\ ~stdinRead /\ connectCalls = 0

\* C10: once a client has been created and a connection attempted,
\* disconnect is executed exactly once before the process ends, on every
\* exit path and whether or not the client reports itself connected.
C10_DisconnectExactlyOnce ==
    (pcSend = "done" /\ client # None /\ connectCalls > 0)
        => disconnectCalls = 1

\* C12: client.publish is invoked at most once in any execution: no retry
\* and no re-publish after a failure; an execution that exits 0 invoked it
\* exactly once.
C12_PublishAtMostOnce ==
    /\ publishCalls <= 1
    /\ Len(published) <= publishCalls
    /\ sendExit = <<0>> => (publishCalls = 1 /\ Len(published) = 1)

C12_Witness ==
    /\ pcSend = "done" /\ sendExit = <<1>>
    /\ publishCalls = 1 /\ msgRc = "no_conn" /\ ~msgAcked

\* C16: client.publish is never invoked before on_connect has been
\* delivered with result code 0 by the network loop, under every
\* interleaving of main and the loop.
C16_PublishOnlyAfterConnack ==
    publishCalls > 0 => 0 \in onConnectRcs

----------------------------------------------------------------------------
(* Claims about the extraction process (ccc10_headless.py) *)

\* a finder reported its field absent: the NOT_FOUND sentinel or null
RuntimeAbsent == runtime_text # Unset /\ runtime_text[1] \in {NOT_FOUND, PyNone}
BatteryAbsent == battery_value # Unset /\ battery_value[1] \in {NOT_FOUND, PyNone}
ExerciseAbsent ==
    genset_exercise_text # Unset /\ genset_exercise_text[1] \in {NOT_FOUND, PyNone}

\* C5: if any of the three extracted fields is absent (its finder returned
\* NOT_FOUND or null), no payload is built, nothing is printed to standard
\* output, and the process exits with a non-zero status.
C5_AbsentFieldIsFatal ==
    (RuntimeAbsent \/ BatteryAbsent \/ ExerciseAbsent) =>
        /\ payload = Unset
        /\ stdout = <<>>
        /\ pcScrape # "print"
        /\ pcScrape = "done" => (scrapeExit # <<>> /\ scrapeExit # <<0>>)

C5_Witness ==
    /\ pcScrape = "done" /\ scrapeExit = <<1>>
    /\ BatteryAbsent /\ ~RuntimeAbsent /\ ~ExerciseAbsent
    /\ genset_value # Unset /\ ParseDate(genset_value[1]).ok
    /\ stdout = <<>> /\ payload = Unset

\* C6: every failure of a step of the session (sign-in, login, navigation,
\* extraction, payload parsing, an exception nothing catches) writes a
\* diagnostic screenshot before the process ends with status 1: no run
\* with an open session fails without a screenshot saved.
C6_FailureLeavesScreenshot ==
    (pcScrape = "done" /\ driver # "none" /\ scrapeExit # <<0>>)
        => (scrapeExit = <<1>> /\ screenshots # {})

\* the three fields were extracted and normalised into the payload
AllExtracted ==
    /\ runtime_value # Unset /\ battery_value # Unset /\ genset_value # Unset
    /\ ~RuntimeAbsent /\ ~BatteryAbsent /\ ~ExerciseAbsent
    /\ payload # Unset

\* C7: standard output receives at most one line per run; the line is the
\* built JSON payload and is written only after all three fields were
\* extracted and normalised; a run that exits 0 has printed it and a run
\* that exits non-zero has printed nothing.
C7_StdoutOnlyThePayload ==
    /\ Len(stdout) <= 1
    /\ stdout # <<>> =>
          (AllExtracted /\ stdout[1] = DumpsLine(payload[1]))
    /\ scrapeExit = <<0>> => Len(stdout) = 1
    /\ (scrapeExit # <<>> /\ scrapeExit # <<0>>) => stdout = <<>>

C7_Witness ==
    /\ pcScrape = "done" /\ scrapeExit = <<0>>
    /\ Len(stdout) = 1
    /\ stdout[1].doc.generator.runtime_hours = [mant |-> 278, scale |-> 1]
    /\ stdout[1].doc.generator.battery_voltage = [mant |-> 132, scale |-> 1]
    /\ stdout[1].doc.generator.last_exercise_date =
          [year |-> 2025, month |-> 3, day |-> 4, tz |-> "+00:00"]

\* C11: once the browser session has been created, driver.quit is called
\* exactly once before the process ends, on every exit path: the printed
\* payload, sys.exit(1) inside any step, an exception nothing catches.
C11_DriverQuitExactlyOnce ==
    /\ quitCalls <= 1
    /\ quitCalls = 1 <=> driver = "quit"
    /\ (pcScrape = "done" /\ driver # "none") => quitCalls = 1

C11_Witness ==
    /\ pcScrape = "done" /\ scrapeExit = <<1>>
    /\ "click_pulldown_debug_render.png" \in screenshots
    /\ driver = "quit" /\ quitCalls = 1

\* C21: whenever control reaches the absent-field check of main, none of
\* runtime_value, battery_value and genset_value is None, so the check
\* never fires: an absent runtime or battery field arrives there as the
\* sentinel NOT_FOUND and goes on to generate_ha_payload, and an absent
\* exercise date has ended the process inside scrape_genset_exercise.
C21_NoneCheckNeverFires ==
    /\ pcScrape = "none_check" =>
          /\ runtime_value # Unset /\ runtime_value[1] # PyNone
          /\ battery_value # Unset /\ battery_value[1] # PyNone
          /\ genset_value # Unset /\ genset_value[1] # PyNone
          /\ RuntimeAbsent => runtime_value[1] = NOT_FOUND
          /\ BatteryAbsent => battery_value[1] = NOT_FOUND
    /\ ExerciseAbsent =>
          /\ genset_value = Unset
          /\ pcScrape \in {"finally", "done"}
          /\ "genset_debug_render.png" \in screenshots
    /\ pcScrape \in {"none_check", "generate_ha_payload", "print"}
          => ~ExerciseAbsent

C21_Witness ==
    /\ pcScrape = "generate_ha_payload"
    /\ RuntimeAbsent /\ runtime_value[1] = NOT_FOUND
    /\ BatteryAbsent /\ battery_value[1] = NOT_FOUND
    /\ payload = Unset

\* C15: a readiness wait of click_pulldown whose target never becomes
\* clickable ends not-ready once the 15-second timeout has passed, and
\* click_pulldown turns that into a screenshot and exit status 1; a wait
\* whose target is found clickable at some poll returns at that poll, and
\* the click is performed then, not at the end of the timeout.
C15_ReadinessWait ==
    /\ waitClock <= WaitTicks + 1
    /\ lastWait.outcome = "NotReady" =>
          /\ lastWait.polls = WaitTicks + 2
          /\ "click_pulldown_debug_render.png" \in screenshots
          /\ scrapeExc = "SystemExit"
          /\ pcScrape \in {"finally", "done"}
          /\ pcScrape = "done" => scrapeExit = <<1>>
    /\ lastWait.outcome = "clicked" =>
          /\ lastWait.readyTick <= WaitTicks + 1
          /\ lastWait.polls = lastWait.readyTick + 1
          /\ lastWait.clickTick = lastWait.readyTick

C15_Witness ==
    /\ lastWait.outcome = "clicked"
    /\ lastWait.readyTick = 3 /\ lastWait.clickTick = 3
    /\ pcScrape = "find_runtime"
    /\ phases[Len(phases)] = "TabMaintenanceOpen"

\* C17: every lookup whose target is rendered after a preceding navigation
\* action is preceded by a bounded readiness wait: no step looks its
\* target up once while the render the previous step started is pending.
C17_LookupsWaitForRender == raced = {}

\* the phases of the session, in their order
PhaseOrder ==
    << "SignInTriggered", "Authenticated", "TabMaintenanceOpen",
       "RuntimeExtracted", "TabGeneratorOpen", "BatteryExtracted",
       "TabNotificationsOpen", "EventsTabOpen", "ExerciseExtracted",
       "PayloadBuilt" >>

\* C18: the phases are visited in the fixed order, each at most once, and
\* a phase is entered only after the phase before it completed: the phases
\* completed so far are always a prefix of the order.
C18_PhasesLinear ==
    /\ Len(phases) <= Len(PhaseOrder)
    /\ \A i \in 1..Len(phases) : phases[i] = PhaseOrder[i]

\* C20: when several elements match the sign-in text, the one chosen is
\* the first that is displayed, never a hidden one before a displayed one,
\* and the click goes to its nearest interactive ancestor.
C20_FirstVisibleCandidate ==
    (Len(elements) >= 2 /\ clicked # 0) =>
        /\ elements[clicked].displayed
        /\ \A j \in 1..(clicked - 1) : ~elements[j].displayed
        /\ clickedUp = elements[clicked].interactiveAt

----------------------------------------------------------------------------
(* Claims about the element locators (ccc10_headless.py) *)

\* every element of a document, those inside shadow roots too
RECURSIVE AllNodes(_, _)
AllNodes(root, at) ==
    UNION { LET p == Append(at, i)
                n == root[i]
            IN {[path |-> p, node |-> n]}
               \cup AllNodes(n.kids, p)
               \cup (IF n.shadow = <<>> THEN {}
                     ELSE AllNodes(n.shadow[1], Append(p, 0))) :
            i \in 1..Len(root) }

\* the elements of the document that match the selector
MatchPaths ==
    { e.path : e \in { x \in AllNodes(document, <<>>) :
                         Matches(x.node, USER_INPUT) } }

\* how many shadow roots enclose the node at path
ShadowDepth(path) == Cardinality({ i \in 1..Len(path) : path[i] = 0 })

\* C13: when the only node matching the selector lies inside a shadow
\* scope nested k levels deep, for any k >= 0, find_deep_placeholder
\* returns that node, not null.
C13_FindsAtAnyDepth ==
    pcDom = "located" =>
        \A p \in MatchPaths : MatchPaths = {p} => located = <<p>>

C13_Witness ==
    /\ pcDom = "located"
    /\ located[1] # Null /\ MatchPaths = {located[1]}
    /\ ShadowDepth(located[1]) >= 2

\* p comes before q in document order (pre-order): p is an ancestor of q,
\* or p turns to an earlier sibling where the two part
DocBefore(p, q) ==
    \/ Len(p) < Len(q) /\ SubSeq(q, 1, Len(p)) = p
    \/ \E i \in 1..Len(p) :
          /\ i <= Len(q)
          /\ SubSeq(p, 1, i - 1) = SubSeq(q, 1, i - 1)
          /\ p[i] < q[i]

\* the node at p lies inside the shadow scope owned by the node at h
InScopeOf(h, p) ==
    /\ Len(p) > Len(h) + 1
    /\ SubSeq(p, 1, Len(h)) = h
    /\ p[Len(h) + 1] = 0

\* a match a inside the scope of a visible node h, and a visible match b
\* after h and outside h's subtree, the only two matches
ScopeBeforeVisible(h, a, b) ==
    /\ ShadowDepth(h) = 0 /\ InScopeOf(h, a)
    /\ ShadowDepth(b) = 0 /\ DocBefore(h, b) /\ SubSeq(b, 1, Len(h)) # h
    /\ MatchPaths = {a, b}

HostOf(p) ==
    SubSeq(p, 1, (CHOOSE i \in 1..Len(p) :
                    p[i] = 0 /\ \A j \in 1..(i - 1) : p[j] # 0) - 1)
InsideOf(p) == SubSeq(p, Len(HostOf(p)) + 2, Len(p))

\* the order of the search within one scope: its visible tree in document
\* order first, then the shadow scopes of its elements, hosts in document
\* order, each scope in this same order
RECURSIVE SearchedBefore(_, _)
SearchedBefore(p, q) ==
    IF ShadowDepth(p) = 0 /\ ShadowDepth(q) = 0 THEN DocBefore(p, q)
    ELSE IF ShadowDepth(p) = 0 THEN TRUE
    ELSE IF ShadowDepth(q) = 0 THEN FALSE
    ELSE IF HostOf(p) = HostOf(q)
    THEN SearchedBefore(InsideOf(p), InsideOf(q))
    ELSE DocBefore(HostOf(p), HostOf(q))

OwnTextMatches(node) ==
    includes(toLowerCase(trim(node.text)), toLowerCase(TAB_EVENTS))

\* a true leaf with the matching text exists somewhere in the document
TrueLeafExists ==
    \E e \in AllNodes(document, <<>>) :
        e.node.kids = <<>> /\ OwnTextMatches(e.node)

\* a container: it has element children, and its text matches only
\* because a descendant carries the text
IsContainerMatch(node) ==
    /\ node.kids # <<>>
    /\ TextMatches(node, TAB_EVENTS)
    /\ ~OwnTextMatches(node)

\* C14 (as claimed): click_tab_smart never selects a container node,
\* whose text matches only because a deeper descendant carries it, in a
\* tree where a true leaf with the matching text exists.
C14_NeverAContainer ==
    (pcDom = "tabbed" /\ tabClicked[1] # Null /\ TrueLeafExists)
        => ~IsContainerMatch(NodeAt(document, tabClicked[1]))

\* the nodes click_tab_smart may click: the text matches, and the node has
\* no element children or is a button or a link
Clickable ==
    { e.path : e \in { x \in AllNodes(document, <<>>) :
        /\ TextMatches(x.node, TAB_EVENTS)
        /\ (x.node.kids = <<>> \/ x.node.tag \in {"BUTTON", "A"}) } }

\* C14 (amended): click_tab_smart never selects a container node other
\* than a BUTTON or an A element: the node it clicks has the matching text
\* and has no element children or is a BUTTON or an A, which is clicked
\* itself also when a descendant carries the text and is a true leaf; it
\* returns false only when the document holds no such node.
C14_NeverAPlainContainer ==
    pcDom = "tabbed" =>
        IF tabClicked[1] = Null THEN Clickable = {}
        ELSE /\ tabClicked[1] \in Clickable
             /\ IsContainerMatch(NodeAt(document, tabClicked[1]))
                   => NodeAt(document, tabClicked[1]).tag \in {"BUTTON", "A"}

C14_Witness ==
    /\ pcDom = "tabbed"
    /\ tabClicked[1] # Null /\ Len(tabClicked[1]) = 2
    /\ ShadowDepth(tabClicked[1]) = 0
    /\ NodeAt(document, tabClicked[1]).kids = <<>>
    /\ document[tabClicked[1][1]].tag = "DIV"
    /\ IsContainerMatch(document[tabClicked[1][1]])

====
